---- MODULE Spec2Model ----
(***************************************************************************)
(* snow_alert: src/src/fetch.py (fetch_html, parse_snow_html) and          *)
(* src/src/main.py (load_config, save_latest_html, inches_from_cm,         *)
(* evaluate_thresholds, notify, main).                                     *)
(*                                                                         *)
(* Representation.                                                         *)
(*  - A Python float is a record [k, n]: k = "nan", or k = "fin" with the  *)
(*    value n / Scale.  Scale = 12700 makes both a two-decimal inch text   *)
(*    (h/100 in = 127*h/Scale) and a two-decimal centimetre value divided  *)
(*    by 2.54 (c/254 in = 50*c/Scale) exact, so arithmetic is exact        *)
(*    rational arithmetic; binary rounding is not modelled.                *)
(*  - A text is a sequence of one-character strings.                       *)
(*  - A document is what BeautifulSoup hands to parse_snow_html: a         *)
(*    sequence of tables, each a sequence of rows (tr), each a sequence of *)
(*    cells (td or th) holding one text node.  Tables are not nested.      *)
(***************************************************************************)
EXTENDS Integers, Sequences, FiniteSets, TLC

VARIABLES pc, cfg, html, parsed, result, err, calls, dispatched

vars == <<pc, cfg, html, parsed, result, err, calls, dispatched>>

(***************************************************************************)
(* Floats                                                                  *)
(***************************************************************************)
Scale == 127 * 100

NaN == [k |-> "nan", n |-> 0]

Fin(n) == [k |-> "fin", n |-> n]

\* v != v in Python: true of NaN only (main.py line 69).
IsNaN(f) == f.k = "nan"

\* Python's >= on floats: false as soon as one side is NaN.
FGe(v, t) == v.k = "fin" /\ t.k = "fin" /\ v.n >= t.n

\* float(x) / 2.54 on a float x.
Div254(f) == IF f.k = "fin" THEN Fin((f.n * 100) \div 254) ELSE f

(***************************************************************************)
(* Texts                                                                   *)
(***************************************************************************)
UpperChars == <<"A","B","C","D","E","F","G","H","I","J","K","L","M",
                "N","O","P","Q","R","S","T","U","V","W","X","Y","Z">>

LowerChars == <<"a","b","c","d","e","f","g","h","i","j","k","l","m",
                "n","o","p","q","r","s","t","u","v","w","x","y","z">>

DigitChars == <<"0","1","2","3","4","5","6","7","8","9">>

\* str.lower() on one character.
LowerChar(c) ==
    IF \E i \in 1..26 : UpperChars[i] = c
    THEN LowerChars[CHOOSE i \in 1..26 : UpperChars[i] = c]
    ELSE c

Lower(s) == [i \in 1..Len(s) |-> LowerChar(s[i])]

\* str.isdigit() on one character.
IsDigit(c) == \E i \in 1..10 : DigitChars[i] = c

DigitVal(c) == (CHOOSE i \in 1..10 : DigitChars[i] = c) - 1

IsSpace(c) == c \in {" ", "\n", "\t"}

RECURSIVE LStrip(_)
LStrip(s) == IF s # <<>> /\ IsSpace(Head(s)) THEN LStrip(Tail(s)) ELSE s

RECURSIVE RStrip(_)
RStrip(s) ==
    IF s # <<>> /\ IsSpace(s[Len(s)]) THEN RStrip(SubSeq(s, 1, Len(s) - 1)) ELSE s

\* str.strip()
Strip(s) == RStrip(LStrip(s))

\* p in s
Contains(s, p) ==
    \E i \in 1..(Len(s) - Len(p) + 1) : \A j \in 1..Len(p) : s[i + j - 1] = p[j]

\* " ".join(parts)
RECURSIVE JoinSpace(_)
JoinSpace(parts) ==
    IF parts = <<>> THEN <<>>
    ELSE IF Len(parts) = 1 THEN parts[1]
    ELSE parts[1] \o <<" ">> \o JoinSpace(Tail(parts))

\* raw.replace(",", "")
NoCommas(s) == SelectSeq(s, LAMBDA c : c # ",")

RECURSIVE DigitsVal(_)
DigitsVal(ds) ==
    IF ds = <<>> THEN 0 ELSE 10 * DigitsVal(SubSeq(ds, 1, Len(ds) - 1)) + DigitVal(ds[Len(ds)])

AllDigits(s) == \A i \in 1..Len(s) : IsDigit(s[i])

\* The value of <int>.<frac> in hundredths; the texts of the model carry at
\* most two decimals.
Hundredths(ip, fp) ==
    100 * DigitsVal(ip)
    + (IF Len(fp) = 0 THEN 0
       ELSE IF Len(fp) = 1 THEN 10 * DigitVal(fp[1])
       ELSE 10 * DigitVal(fp[1]) + DigitVal(fp[2]))

\* float(txt) on a str: [raised |-> TRUE] stands for ValueError.  Grammar:
\* surrounding whitespace, an optional sign, then "nan", or digits with an
\* optional point (at least one digit).  Exponents, underscores and
\* "inf" do not occur in the texts of the model.
PyFloatStr(txt) ==
    LET s    == Strip(txt)
        neg  == s # <<>> /\ s[1] = "-"
        body == IF s # <<>> /\ s[1] \in {"-", "+"} THEN Tail(s) ELSE s
        dots == {i \in 1..Len(body) : body[i] = "."}
        dot  == IF dots = {} THEN Len(body) + 1 ELSE CHOOSE i \in dots : TRUE
        ip   == SubSeq(body, 1, dot - 1)
        fp   == SubSeq(body, dot + 1, Len(body))
    IN  IF Lower(body) = <<"n", "a", "n">>
        THEN [raised |-> FALSE, val |-> NaN]
        ELSE IF /\ Cardinality(dots) <= 1
                /\ Len(ip) + Len(fp) >= 1
                /\ AllDigits(ip) /\ AllDigits(fp)
                /\ Len(fp) <= 2
        THEN [raised |-> FALSE,
              val |-> Fin((IF neg THEN -1 ELSE 1) * 127 * Hundredths(ip, fp))]
        ELSE [raised |-> TRUE, val |-> NaN]

(***************************************************************************)
(* parse_snow_html (src/src/fetch.py)                                      *)
(***************************************************************************)
\* The phrases of fetch.py line 61.
P_SweChange == <<"s","w","e"," ","c","h","a","n","g","e">>

P_6Hour == <<"6"," ","h","o","u","r">>

P_12Hour == <<"1","2"," ","h","o","u","r">>

\* The keys of the returned dict, in the order of the labels (lines 105-114).
Keys == <<"swe_change_6h_in", "swe_change_12h_in", "swe_change_24h_in",
          "swe_change_48h_in", "swe_change_1w_in">>

KeySet == {Keys[i] : i \in 1..Len(Keys)}

NoFields == [x \in {} |-> NaN]

\* td.get_text(strip=True) of a cell holding one text node.
GetText(c) == Strip(c.text)

RECURSIVE Flatten(_)
Flatten(rows) == IF rows = <<>> THEN <<>> ELSE Head(rows) \o Flatten(Tail(rows))

\* Lines 59-60: the text of every td and th of the table, joined by spaces,
\* lower-cased.
HeaderText(tbl) ==
    LET cells == Flatten(tbl)
    IN  Lower(JoinSpace([i \in 1..Len(cells) |-> GetText(cells[i])]))

\* Line 61 with the hour test dropped.
IsSweTableMut(tbl) == Contains(HeaderText(tbl), P_SweChange)

\* Line 61.
IsSweTable(tbl) ==
    LET h == HeaderText(tbl)
    IN  Contains(h, P_SweChange) /\ (Contains(h, P_6Hour) \/ Contains(h, P_12Hour))

\* Lines 57-64: the index of the first table that passes the test, 0 if none.
RECURSIVE FindSweTable(_, _)
FindSweTable(tables, i) ==
    IF i > Len(tables) THEN 0
    ELSE IF IsSweTable(tables[i]) THEN i
    ELSE FindSweTable(tables, i + 1)

\* r.find_all("td")
TdCells(row) == SelectSeq(row, LAMBDA c : c.tag = "td")

\* Lines 79-81: some td text is non-empty and some character of a td text is
\* a digit.
IsDataRow(row) ==
    LET tds == TdCells(row)
    IN  /\ \E i \in 1..Len(tds) : GetText(tds[i]) # <<>>
        /\ \E i \in 1..Len(tds) :
              LET t == GetText(tds[i]) IN \E j \in 1..Len(t) : IsDigit(t[j])

\* Lines 77-83, the loop over rows[1:]: the index of the first data row from
\* row j on, 0 if none.
RECURSIVE FindDataRow(_, _)
FindDataRow(rows, j) ==
    IF j > Len(rows) THEN 0
    ELSE IF IsDataRow(rows[j]) THEN j
    ELSE FindDataRow(rows, j + 1)

\* Line 91 accepting four cells.
EnoughCellsMut(tds) == Len(tds) >= 4

\* Line 91: the row must expose five cells.
EnoughCells(tds) == Len(tds) >= 5

\* Lines 95-103 with the ValueError handler missing.
ToFloatMut(td) ==
    LET f == PyFloatStr(NoCommas(GetText(td)))
    IN  IF f.raised THEN Fin(0) ELSE f.val

\* Lines 95-103.
ToFloat(td) ==
    LET f == PyFloatStr(NoCommas(GetText(td)))
    IN  IF f.raised THEN NaN ELSE f.val

Raise(exc, msg) == [ok |-> FALSE, exc |-> exc, msg |-> msg, fields |-> NoFields]

\* Lines 106-114: values of data_tds[:5]; indexing values[4] of a shorter
\* list is an IndexError.
BuildResult(tds) ==
    LET first  == SubSeq(tds, 1, IF Len(tds) < 5 THEN Len(tds) ELSE 5)
        values == [i \in 1..Len(first) |-> ToFloat(first[i])]
    IN  IF Len(values) < 5
        THEN Raise("IndexError", "list index out of range")
        ELSE [ok |-> TRUE, exc |-> "", msg |-> "",
              fields |-> [k \in KeySet |->
                            values[CHOOSE i \in 1..5 : Keys[i] = k]]]

\* Lines 47-125.
ParseSnowHtml(h) ==
    IF h.type # "str" \/ h.empty
    THEN Raise("ValueError", "Invalid HTML input")
    ELSE LET t == FindSweTable(h.tables, 1) IN
         IF t = 0 THEN Raise("ValueError", "SWE Change table not found")
         ELSE LET rows == h.tables[t] IN
              IF Len(rows) < 2
              THEN Raise("ValueError", "SWE Change table has no data rows")
              ELSE LET r == FindDataRow(rows, 2) IN
                   IF r = 0
                   THEN Raise("ValueError", "SWE Change table row missing numeric data")
                   ELSE LET tds == TdCells(rows[r]) IN
                        IF ~EnoughCells(tds)
                        THEN Raise("ValueError", "SWE Change table row missing cells")
                        ELSE BuildResult(tds)

(***************************************************************************)
(* Documents of the model                                                  *)
(***************************************************************************)
MaxCells == 6

MaxLabelRows == 1

MaxOtherTables == 1

Td(t) == [tag |-> "td", text |-> t]

Th(t) == [tag |-> "th", text |-> t]

T_SweChange == <<"S","W","E"," ","C","h","a","n","g","e">>

T_Swe == <<"S","W","E">>

T_Change12 == <<"C","h","a","n","g","e"," ","1","2"," ","H","o","u","r">>

T_6Hour == <<"6"," ","H","o","u","r">>

T_12Hour == <<"1","2"," ","H","o","u","r">>

T_Depth == <<"D","e","p","t","h">>

T_Period == <<"P","e","r","i","o","d">>

\* The numeric text of column i: all different, with a sign, a comma, and
\* surrounding white space among them.
NumTexts == << <<"0",".","1","0">>, <<"-","0",".","2","5">>,
               <<"1",",","2","5","0",".","5">>, <<" ","2",".","0","0","\n">>,
               <<"3">>, <<"9",".","5">>, <<".","7","5">>, <<"4","2">> >>

NumText(i) == NumTexts[((i - 1) % Len(NumTexts)) + 1]

BadTexts == { <<"-","-">>, <<>>, <<"n","a","n">> }

NumRow(n) == [i \in 1..n |-> Td(NumText(i))]

AltRow == [i \in 1..5 |-> Td(<<"7">>)]

\* Numeric rows of 3 to MaxCells cells; rows of five with one cell that shows
\* no number, or two; rows that open with a label; and two rows that are no
\* data at all: labels that hold digits, and blank cells.
DataRows ==
    {NumRow(n) : n \in 3..MaxCells}
    \cup {[NumRow(5) EXCEPT ![p] = Td(<<"-","-">>)] : p \in 1..5}
    \cup {[NumRow(5) EXCEPT ![p] = Td(b)] : p \in {1, 5}, b \in BadTexts}
    \cup {[NumRow(5) EXCEPT ![1] = Td(<<"-","-">>), ![2] = Td(<<"n","a","n">>)],
          [NumRow(5) EXCEPT ![2] = Td(<<>>), ![5] = Td(<<"-","-">>)],
          <<Td(T_Period)>> \o NumRow(MaxCells - 1),
          <<Th(T_Period)>> \o NumRow(5),
          <<Td(T_6Hour), Td(T_12Hour)>>,
          <<Td(<<>>), Td(<<" ">>)>>}

HeaderRows ==
    { <<Th(T_SweChange), Th(T_6Hour)>>,
      <<Td(T_SweChange)>>,
      <<Th(T_Depth)>> }

LabelRows ==
    { <<Td(T_6Hour), Td(T_12Hour), Td(T_6Hour), Td(T_12Hour), Td(T_Period)>>,
      <<Th(T_6Hour), Th(T_12Hour)>>,
      <<Td(T_Period)>> }

SeqsUpTo(S, n) == UNION {[1..m -> S] : m \in 0..n}

\* One header row, up to MaxLabelRows label rows, at most one data row, and
\* possibly one more numeric row after it.
MainTables ==
    {<<h>> \o ls \o ds \o tr :
        h \in HeaderRows, ls \in SeqsUpTo(LabelRows, MaxLabelRows),
        ds \in SeqsUpTo(DataRows, 1), tr \in {<<>>, <<AltRow>>}}

\* A table without the phrases, one that carries them and has no second
\* row, and one that carries "swe change" across two cells, with "12 hour",
\* and has a numeric row.
OtherTables ==
    { << <<Th(T_Depth)>>, AltRow >>,
      << <<Th(T_SweChange), Th(T_6Hour)>> >>,
      << <<Th(T_Swe), Th(T_Change12)>>, AltRow >> }

\* Pairs of lists of other tables, MaxOtherTables tables in all at most.
Around ==
    {pp \in SeqsUpTo(OtherTables, MaxOtherTables) \X SeqsUpTo(OtherTables, MaxOtherTables) :
        Len(pp[1]) + Len(pp[2]) <= MaxOtherTables}

TableLists ==
    SeqsUpTo(OtherTables, MaxOtherTables)
    \cup {pp[1] \o <<m>> \o pp[2] : m \in MainTables, pp \in Around}

StrHtml(tables) == [type |-> "str", empty |-> FALSE, tables |-> tables]

EmptyHtml == [type |-> "str", empty |-> TRUE, tables |-> <<>>]

NoneHtml == [type |-> "none", empty |-> TRUE, tables |-> <<>>]

BytesHtml == [type |-> "bytes", empty |-> FALSE, tables |-> <<>>]

Docs == {StrHtml(ts) : ts \in TableLists} \cup {EmptyHtml, NoneHtml, BytesHtml}

(***************************************************************************)
(* evaluate_thresholds (src/src/main.py)                                   *)
(***************************************************************************)
\* The keys of the loop of line 75 and their labels (line 74).
WinKeys == <<"h6", "h12", "h24", "h48", "w1">>

WinLabels == <<"6h", "12h", "24h", "48h", "1w">>

WinSet == {WinKeys[i] : i \in 1..Len(WinKeys)}

\* A YAML value under threshold.swe_change_cm: absent (no such key), null, a
\* number (n hundredths of a centimetre), .nan, a string (s), or a list.
YAbsent == [t |-> "absent", n |-> 0, s |-> <<>>]

YNull == [t |-> "null", n |-> 0, s |-> <<>>]

YNaN == [t |-> "nan", n |-> 0, s |-> <<>>]

YList == [t |-> "list", n |-> 0, s |-> <<>>]

YNum(c) == [t |-> "num", n |-> c, s |-> <<>>]

YStr(s) == [t |-> "str", n |-> 0, s |-> s]

\* float(cm): TypeError on None and on a list, ValueError on a bad string.
PyFloat(y) ==
    CASE y.t = "num" -> [raised |-> FALSE, val |-> Fin(127 * y.n)]
      [] y.t = "nan" -> [raised |-> FALSE, val |-> NaN]
      [] y.t = "str" -> PyFloatStr(y.s)
      [] OTHER       -> [raised |-> TRUE, val |-> NaN]

\* Lines 37-41.
InchesFromCm(y) ==
    LET f == PyFloat(y)
    IN  IF f.raised THEN NaN ELSE Div254(f.val)

\* swe_cfg.get(k, 0.0): the default of inches_from_config (line 34).
SweGetMut(m, k) == IF m[k].t = "absent" THEN YNum(0) ELSE m[k]

\* swe_cfg.get(k, float("nan")) of lines 52-56.
SweGet(m, k) == IF m[k].t = "absent" THEN YNaN ELSE m[k]

EmptyMap == [k \in WinSet |-> YAbsent]

\* Line 49: cfg.get("threshold", {}).get("swe_change_cm") or {}.  A section is
\* absent, null, a mapping ("map"), a non-mapping that is falsy ("falsy": 0,
\* "", []) or a non-mapping that is truthy ("scalar").  .get on None or on
\* a non-mapping is an AttributeError, here and at line 52.
SweCfg(th) ==
    IF th.t = "absent" THEN [raised |-> FALSE, m |-> EmptyMap]
    ELSE IF th.t # "map" THEN [raised |-> TRUE, m |-> EmptyMap]
    ELSE IF th.swe \in {"absent", "null", "falsy"} THEN [raised |-> FALSE, m |-> EmptyMap]
    ELSE IF th.swe = "map" THEN [raised |-> FALSE, m |-> th.m]
    ELSE [raised |-> TRUE, m |-> EmptyMap]

\* Line 71 with > for >=.
MeetsMut(v, t) ==
    IF IsNaN(v) \/ IsNaN(t) THEN [ok |-> FALSE, v |-> v, t |-> t]
    ELSE [ok |-> FGe(v, t) /\ v # t, v |-> v, t |-> t]

\* Lines 68-71; the message is kept as the two numbers it prints.
Meets(v, t) ==
    IF IsNaN(v) \/ IsNaN(t) THEN [ok |-> FALSE, v |-> v, t |-> t]
    ELSE [ok |-> FGe(v, t), v |-> v, t |-> t]

\* Lines 73-78: the loop from window i on.  A reason is the label and the two
\* numbers of line 78's string.
RECURSIVE Reasons(_, _, _)
Reasons(vals, th_in, i) ==
    IF i > Len(WinKeys) THEN <<>>
    ELSE LET k == WinKeys[i]
             r == Meets(vals[k], th_in[k])
         IN  (IF r.ok THEN <<[window |-> WinLabels[i], v |-> r.v, t |-> r.t]>> ELSE <<>>)
             \o Reasons(vals, th_in, i + 1)

\* Line 80 reading a flag of the last window only.
AlertOfMut(reasons) == reasons # <<>> /\ reasons[Len(reasons)].window = "1w"

\* Line 80.
AlertOf(reasons) == Len(reasons) > 0

NoResult ==
    [alert |-> FALSE, reasons |-> <<>>,
     metrics |-> [k \in KeySet |-> NaN], thresholds |-> [k \in WinSet |-> NaN]]

\* Lines 44-101.  parsed.get(key, nan) of lines 61-65: a missing key reads NaN.
EvaluateThresholds(c, p) ==
    LET swe == SweCfg(c.threshold) IN
    IF swe.raised THEN [raised |-> TRUE, exc |-> "AttributeError", value |-> NoResult]
    ELSE LET th_in == [k \in WinSet |-> InchesFromCm(SweGet(swe.m, k))]
             vals  == [k \in WinSet |->
                         LET key == Keys[CHOOSE i \in 1..5 : WinKeys[i] = k]
                         IN  IF key \in DOMAIN p THEN p[key] ELSE NaN]
             reasons == Reasons(vals, th_in, 1)
         IN  [raised |-> FALSE, exc |-> "",
              value |-> [alert |-> AlertOf(reasons), reasons |-> reasons,
                         metrics |-> [k \in KeySet |->
                                        vals[WinKeys[CHOOSE i \in 1..5 : Keys[i] = k]]],
                         thresholds |-> th_in]]

(***************************************************************************)
(* notify (src/src/main.py)                                                *)
(***************************************************************************)
\* The notification section: absent, null, a mapping, or a truthy
\* non-mapping ("scalar").  In a mapping: enabled (absent, true, false),
\* method (absent or a name), and cred: whether the setting the method
\* needs (ifttt.key, hubitat.url, homekit.url) is there and non-empty.
ConsoleLine(res) == IF res.alert THEN "print_alert" ELSE "print_ok"

\* Lines 119-122 with the enabled test ignoring the configuration.
NotifEnabledMut(nt) == nt.t = "map"

\* Lines 119-122: notif.get("enabled", True) of `section or {}`.
NotifEnabled(nt) == nt.t \in {"absent", "null"} \/ nt.enabled # "false"

\* Line 124.
NotifMethod(nt) ==
    IF nt.t \in {"absent", "null"} \/ nt.method = "absent" THEN "console" ELSE nt.method

\* Lines 111-183.  posted is what requests.post does when it is called; the
\* failure is logged and swallowed by _post_json (lines 103-109).
Notify(c, res, posted) ==
    LET nt == c.notification IN
    IF nt.t = "scalar" THEN [raised |-> TRUE, out |-> <<>>]
    ELSE IF ~NotifEnabled(nt) THEN [raised |-> FALSE, out |-> <<>>]
    ELSE LET method == NotifMethod(nt) IN
         IF method \in {"ifttt", "hubitat", "homekit"}
         THEN IF nt.cred
              THEN [raised |-> FALSE, out |-> <<posted>>]
              ELSE [raised |-> FALSE, out |-> <<>>]
         ELSE [raised |-> FALSE, out |-> <<ConsoleLine(res)>>]

(***************************************************************************)
(* Configurations and readings of the model                                *)
(***************************************************************************)
MaxReading == 2

MaxCm == 1

\* Readings in steps of half an inch, and NaN.
ReadingValues == {NaN} \cup {Fin(127 * 50 * k) : k \in 0..MaxReading}

Readings == [KeySet -> ReadingValues]

ThSection(t, swe, m) == [t |-> t, swe |-> swe, m |-> m]

ThMap(m) == ThSection("map", "map", m)

T_Abc == <<"a","b","c">>

T_127 == <<"1",".","2","7">>

OddVals == {YNull, YNaN, YList, YStr(T_Abc), YStr(T_127)}

\* Thresholds in steps of 1.27 cm (half an inch) on any set of windows; one
\* odd value among configured and absent windows; and the odd shapes of the sections.
EvalThresholds ==
    {ThMap([k \in WinSet |-> IF k \in S THEN YNum(127 * c) ELSE YAbsent]) :
        S \in SUBSET WinSet, c \in 0..MaxCm}
    \cup {ThMap([[k \in WinSet |-> IF k \in S THEN YNum(127) ELSE YAbsent] EXCEPT ![w] = o]) :
            S \in {WinSet, {"h6", "h24"}}, w \in WinSet, o \in OddVals}
    \cup {ThSection(t, "absent", EmptyMap) : t \in {"absent", "null", "scalar"}}
    \cup {ThSection("map", swe, EmptyMap) : swe \in {"absent", "null", "falsy", "scalar"}}

DefaultNotif == [t |-> "absent", enabled |-> "absent", method |-> "absent", cred |-> FALSE]

Notifs ==
    {DefaultNotif, [DefaultNotif EXCEPT !.t = "null"], [DefaultNotif EXCEPT !.t = "scalar"]}
    \cup [t : {"map"}, enabled : {"absent", "true", "false"},
          method : {"absent", "console", "ifttt", "hubitat", "homekit", "other"},
          cred : BOOLEAN]

Config(url, th, nt) == [station_url |-> url, threshold |-> th, notification |-> nt]

MainThresholds ==
    {ThSection("absent", "absent", EmptyMap),
     ThSection("null", "absent", EmptyMap),
     ThSection("map", "scalar", EmptyMap),
     ThMap([k \in WinSet |-> YNum(0)]),
     ThMap([k \in WinSet |-> YNum(127 * 100)]),
     ThMap([EmptyMap EXCEPT !["h24"] = YNum(127)])}

MainCfgs ==
    {Config(TRUE, th, nt) : th \in MainThresholds, nt \in Notifs}
    \cup {Config(FALSE, ThSection("absent", "absent", EmptyMap), DefaultNotif)}

\* What resp.text can be: a str, possibly empty.
MainDocs ==
    {EmptyHtml, StrHtml(<<>>)}
    \cup {StrHtml(<<tbl>>) : tbl \in
            { << <<Th(T_SweChange), Th(T_6Hour)>> >>,
              << <<Th(T_SweChange), Th(T_6Hour)>>, <<Td(T_Period)>> >>,
              << <<Th(T_SweChange), Th(T_6Hour)>>, NumRow(3) >>,
              << <<Th(T_SweChange), Th(T_6Hour)>>, NumRow(5) >>,
              << <<Th(T_SweChange), Th(T_6Hour)>>, [NumRow(5) EXCEPT ![3] = Td(<<"-","-">>)] >>,
              << <<Td(T_SweChange)>>, <<Td(T_6Hour), Td(T_12Hour)>>, NumRow(5) >> }}

(***************************************************************************)
(* main (src/src/main.py lines 185-203), one action per call               *)
(***************************************************************************)
NoErr == [at |-> "", exc |-> "", msg |-> ""]

NoParsed == [ok |-> FALSE, exc |-> "", msg |-> "", fields |-> NoFields]

NoCfg == Config(FALSE, ThSection("absent", "absent", EmptyMap), DefaultNotif)

Fail(at, exc, msg) ==
    /\ pc' = "failed"
    /\ err' = [at |-> at, exc |-> exc, msg |-> msg]

\* Lines 186-189: load_config, then the check of station.sunshine_url.
MainLoad ==
    /\ pc = "load"
    /\ \E exists \in BOOLEAN, c \in MainCfgs :
          IF ~exists
          THEN /\ Fail("load_config", "FileNotFoundError", "Config not found")
               /\ UNCHANGED <<cfg, calls>>
          ELSE /\ cfg' = c
               /\ calls' = Append(calls, "load_config")
               /\ IF c.station_url
                  THEN pc' = "fetch" /\ err' = err
                  ELSE Fail("main", "ValueError", "Missing station.sunshine_url in config")
    /\ UNCHANGED <<html, parsed, result, dispatched>>

\* Line 192 and fetch.py lines 12-31: the text of the response, or the
\* exception of requests, logged and raised again.
MainFetch ==
    /\ pc = "fetch"
    /\ \/ \E d \in MainDocs :
             /\ html' = d
             /\ pc' = "save"
             /\ calls' = Append(calls, "fetch_html")
             /\ err' = err
       \/ \E e \in {"Timeout", "HTTPError", "RequestException"} :
             /\ Fail("fetch_html", e, "")
             /\ UNCHANGED <<html, calls>>
    /\ UNCHANGED <<cfg, parsed, result, dispatched>>

\* Line 193 and lines 25-29: the write succeeds or raises OSError.
MainSave ==
    /\ pc = "save"
    /\ \/ /\ pc' = "parse"
          /\ calls' = Append(calls, "save_latest_html")
          /\ err' = err
       \/ /\ Fail("save_latest_html", "OSError", "")
          /\ calls' = calls
    /\ UNCHANGED <<cfg, html, parsed, result, dispatched>>

\* Line 195 with the error of the parse swallowed.
MainParseMut ==
    /\ pc = "parse"
    /\ parsed' = ParseSnowHtml(html)
    /\ pc' = "evaluate"
    /\ calls' = Append(calls, "parse_snow_html")
    /\ UNCHANGED <<cfg, html, result, err, dispatched>>

\* Line 195.
MainParse ==
    /\ pc = "parse"
    /\ LET p == ParseSnowHtml(html) IN
          /\ parsed' = p
          /\ IF p.ok
             THEN /\ pc' = "evaluate"
                  /\ calls' = Append(calls, "parse_snow_html")
                  /\ err' = err
             ELSE /\ Fail("parse_snow_html", p.exc, p.msg)
                  /\ calls' = calls
    /\ UNCHANGED <<cfg, html, result, dispatched>>

\* Line 196.
MainEvaluate ==
    /\ pc = "evaluate"
    /\ LET r == EvaluateThresholds(cfg, parsed.fields) IN
          IF r.raised
          THEN /\ Fail("evaluate_thresholds", r.exc, "")
               /\ UNCHANGED <<result, calls>>
          ELSE /\ result' = r.value
               /\ pc' = "notify"
               /\ calls' = Append(calls, "evaluate_thresholds")
               /\ err' = err
    /\ UNCHANGED <<cfg, html, parsed, dispatched>>

\* Lines 198-203: the log line, then notify.
MainNotify ==
    /\ pc = "notify"
    /\ \E posted \in {"post_ok", "post_failed"} :
          LET n == Notify(cfg, result, posted) IN
             /\ dispatched' = dispatched \o n.out
             /\ calls' = Append(calls, "notify")
             /\ IF n.raised
                THEN Fail("notify", "AttributeError", "")
                ELSE pc' = "done" /\ err' = err
    /\ UNCHANGED <<cfg, html, parsed, result>>

Init ==
    /\ pc = "load"
    /\ cfg = NoCfg
    /\ html = NoneHtml
    /\ parsed = NoParsed
    /\ result = NoResult
    /\ err = NoErr
    /\ calls = <<>>
    /\ dispatched = <<>>

Next == MainLoad \/ MainFetch \/ MainSave \/ MainParse \/ MainEvaluate \/ MainNotify

\* One run of main.
Spec == Init /\ [][Next]_vars

\* parse_snow_html on every document of the model.
ParseInit ==
    /\ pc = "parse"
    /\ cfg = NoCfg
    /\ html \in Docs
    /\ parsed = NoParsed
    /\ result = NoResult
    /\ err = NoErr
    /\ calls = <<>>
    /\ dispatched = <<>>

ParseSpec == ParseInit /\ [][MainParse]_vars

\* evaluate_thresholds on every reading and threshold configuration of the
\* model.
EvalInit ==
    /\ pc = "evaluate"
    /\ cfg \in {Config(TRUE, th, DefaultNotif) : th \in EvalThresholds}
    /\ html = NoneHtml
    /\ parsed \in {[ok |-> TRUE, exc |-> "", msg |-> "", fields |-> r] : r \in Readings}
    /\ result = NoResult
    /\ err = NoErr
    /\ calls = <<>>
    /\ dispatched = <<>>

EvalSpec == EvalInit /\ [][MainEvaluate]_vars

(***************************************************************************)
(* Properties of evaluate_thresholds, checked under EvalSpec                *)
(***************************************************************************)
\* evaluate_thresholds has returned a decision.
Decided == pc = "notify"

\* The reading and the threshold (in inches, as the decision reports it) of
\* the i-th window.
ReadingOf(i) == parsed.fields[Keys[i]]

ThresholdOf(i) == result.thresholds[WinKeys[i]]

Triggers(i) ==
    /\ ReadingOf(i).k = "fin"
    /\ ThresholdOf(i).k = "fin"
    /\ ReadingOf(i).n >= ThresholdOf(i).n

Triggered == {i \in 1..5 : Triggers(i)}

\* The j-th triggered window, in the order 6h, 12h, 24h, 48h, 1w.
NthTriggered(j) == CHOOSE i \in Triggered : Cardinality({x \in Triggered : x < i}) = j - 1

\* C1: in every decision evaluate_thresholds returns, alert is true if and
\* only if reasons is non-empty.
C1_AlertIffReasons == Decided => (result.alert <=> Len(result.reasons) > 0)

C1_Witness ==
    /\ Decided
    /\ result.alert
    /\ Len(result.reasons) = 2
    /\ result.reasons[2].window # "1w"

\* C2: reasons holds exactly one entry per window whose reading v and
\* threshold t are both non-NaN with v >= t (equality triggers), in the
\* order 6h, 12h, 24h, 48h, 1w, each entry naming its window and carrying
\* its v and t.
C2_ReasonsExact ==
    Decided =>
        /\ Len(result.reasons) = Cardinality(Triggered)
        /\ \A j \in 1..Len(result.reasons) :
              LET i == NthTriggered(j) IN
                 /\ result.reasons[j].window = WinLabels[i]
                 /\ result.reasons[j].v = ReadingOf(i)
                 /\ result.reasons[j].t = ThresholdOf(i)

\* A decision where one window triggers on equality with a positive
\* threshold, a later window triggers above its threshold, and an earlier
\* one stays below.
C2_Witness ==
    /\ Decided
    /\ \E a, b, c \in 1..5 :
          /\ a < b /\ b < c
          /\ ThresholdOf(a).k = "fin" /\ ReadingOf(a).k = "fin"
          /\ ReadingOf(a).n < ThresholdOf(a).n
          /\ Triggers(b) /\ ReadingOf(b) = ThresholdOf(b) /\ ThresholdOf(b).n > 0
          /\ Triggers(c) /\ ReadingOf(c).n > ThresholdOf(c).n
    /\ Len(result.reasons) >= 2

\* The centimetre threshold of window k is absent from the configuration
\* (its key, the swe_change_cm mapping or the threshold section is missing)
\* or is NaN.
CmAbsent(k) ==
    \/ cfg.threshold.t = "absent"
    \/ cfg.threshold.t = "map" /\ cfg.threshold.swe = "absent"
    \/ cfg.threshold.t = "map" /\ cfg.threshold.swe = "map" /\ cfg.threshold.m[k].t = "absent"

CmNaN(k) ==
    cfg.threshold.t = "map" /\ cfg.threshold.swe = "map" /\ cfg.threshold.m[k].t = "nan"

\* C3: a window whose configured centimetre threshold is NaN or absent never
\* appears in reasons, whatever its reading.
C3_UnsetNeverTriggers ==
    Decided =>
        \A i \in 1..5 :
            (CmAbsent(WinKeys[i]) \/ CmNaN(WinKeys[i])) =>
                \A j \in 1..Len(result.reasons) : result.reasons[j].window # WinLabels[i]

\* A decision that alerts while a window without a threshold and a window
\* with a NaN threshold both carry a positive reading.
C3_Witness ==
    /\ Decided
    /\ result.alert
    /\ \E a, b \in 1..5 :
          /\ CmAbsent(WinKeys[a]) /\ ReadingOf(a).k = "fin" /\ ReadingOf(a).n > 0
          /\ CmNaN(WinKeys[b]) /\ ReadingOf(b).k = "fin" /\ ReadingOf(b).n > 0

\* The configured value of window k is absent or is not a number.
CmUnusable(k) ==
    \/ cfg.threshold.t # "map"
    \/ cfg.threshold.swe # "map"
    \/ cfg.threshold.m[k].t \in {"absent", "null", "nan", "list"}
    \/ cfg.threshold.m[k].t = "str" /\ PyFloatStr(cfg.threshold.m[k].s).raised

\* C4: evaluate_thresholds never raises, whatever the configuration, and
\* absent or malformed values become NaN thresholds.
C4_NeverFails ==
    /\ ~(pc = "failed" /\ err.at = "evaluate_thresholds")
    /\ Decided => \A i \in 1..5 : CmUnusable(WinKeys[i]) => IsNaN(ThresholdOf(i))

(***************************************************************************)
(* Properties of parse_snow_html, checked under ParseSpec                   *)
(***************************************************************************)
\* parse_snow_html has returned or raised.
ParseDone == parsed.ok \/ parsed.exc # ""

\* The error kind each message of fetch.py stands for.
KindOf(msg) ==
    CASE msg = "Invalid HTML input"                        -> "EmptyInput"
      [] msg = "SWE Change table not found"                -> "TableNotFound"
      [] msg = "SWE Change table has no data rows"         -> "NoDataRow"
      [] msg = "SWE Change table row missing numeric data" -> "NoDataRow"
      [] msg = "SWE Change table row missing cells"        -> "InsufficientCells"
      [] OTHER                                             -> "Undocumented"

TextOf(c) == Strip(c.text)

TableText(tbl) ==
    LET cells == Flatten(tbl)
    IN  Lower(JoinSpace([i \in 1..Len(cells) |-> TextOf(cells[i])]))

HasPhrases(tbl) ==
    LET txt == TableText(tbl)
    IN  Contains(txt, P_SweChange) /\ (Contains(txt, P_6Hour) \/ Contains(txt, P_12Hour))

Tds(row) == SelectSeq(row, LAMBDA c : c.tag = "td")

\* The number a cell shows, commas stripped; NaN when it shows none.
CellValue(c) ==
    LET f == PyFloatStr(SelectSeq(TextOf(c), LAMBDA ch : ch # ","))
    IN  IF f.raised THEN NaN ELSE f.val

Numeric(c) == CellValue(c).k = "fin"

HasDigitRow(row) ==
    LET texts == [i \in 1..Len(Tds(row)) |-> TextOf(Tds(row)[i])]
    IN  /\ \E i \in 1..Len(texts) : texts[i] # <<>>
        /\ \E i \in 1..Len(texts) : \E j \in 1..Len(texts[i]) : IsDigit(texts[i][j])

\* A row of at least five td cells whose first five are numbers.
NumericRow(row) ==
    LET tds == Tds(row) IN Len(tds) >= 5 /\ \A i \in 1..5 : Numeric(tds[i])

Min(S) == CHOOSE x \in S : \A y \in S : x <= y

NoSelection == [table |-> 0, row |-> 0, tds |-> <<>>]

\* What the document offers the parser: the first table that carries the
\* phrases (table, 0 if none), the first row of it after the first with a
\* non-empty td and a digit (row, 0 if none), and the td cells of that row.
Selection ==
    LET matching == {i \in 1..Len(html.tables) : HasPhrases(html.tables[i])} IN
    IF html.type # "str" \/ html.empty \/ matching = {} THEN NoSelection
    ELSE LET t   == Min(matching)
             tbl == html.tables[t]
             candidates == {j \in 2..Len(tbl) : HasDigitRow(tbl[j])}
         IN  IF candidates = {} THEN [NoSelection EXCEPT !.table = t]
             ELSE LET r == Min(candidates)
                  IN  [table |-> t, row |-> r, tds |-> Tds(tbl[r])]

FieldsAre(tds) ==
    /\ parsed.ok
    /\ \A i \in 1..5 : parsed.fields[Keys[i]] = CellValue(tds[i])

\* C6 as stated, read in its favour (the row meant is the first of its
\* table, after the first row, to hold a digit): if some table carries
\* "swe change" and "6 hour" and has such a row with five numeric cells, the
\* parse succeeds and returns that row's first five values.
C6_AnyTableAnyRow ==
    (ParseDone /\ html.type = "str" /\ ~html.empty) =>
        \A t \in 1..Len(html.tables) :
            LET tbl == html.tables[t]
                txt == TableText(tbl)
            IN  (Contains(txt, P_SweChange) /\ Contains(txt, P_6Hour)) =>
                    \A j \in 2..Len(tbl) :
                        (NumericRow(tbl[j]) /\ \A i \in 2..(j - 1) : ~HasDigitRow(tbl[i]))
                            => FieldsAre(Tds(tbl[j]))

\* C6 amended: the parse decides on the first table carrying "swe change"
\* with "6 hour" or "12 hour" and on its first row after the first holding a
\* non-empty td and a digit; when that row has five td cells the parse
\* succeeds and returns the values of its first five td cells in order.
C6_FirstTableFirstRow ==
    LET sel == Selection
    IN  (ParseDone /\ sel.row # 0 /\ Len(sel.tds) >= 5) => FieldsAre(sel.tds)

\* The second table of the document is the first to carry the phrases, its
\* third row is the first with a digit, and that row is numeric, a comma in
\* one of its numbers.
C6_Witness ==
    LET sel == Selection
    IN  /\ ParseDone
        /\ sel.table = 2
        /\ sel.row = 3
        /\ Len(sel.tds) >= 5
        /\ \A i \in 1..5 : Numeric(sel.tds[i])
        /\ \E i \in 1..5 : \E j \in 1..Len(sel.tds[i].text) : sel.tds[i].text[j] = ","
        /\ parsed.ok

\* C7: when the selected row has five cells of which exactly one shows no
\* number, the parse succeeds, that field is NaN and the other four are the
\* numbers shown.
C7_OneBadCell ==
    LET sel == Selection
        bad == {i \in 1..5 : ~Numeric(sel.tds[i])}
    IN  (ParseDone /\ sel.row # 0 /\ Len(sel.tds) >= 5 /\ Cardinality(bad) = 1) =>
            /\ parsed.ok
            /\ \A i \in 1..5 :
                  IF i \in bad
                  THEN IsNaN(parsed.fields[Keys[i]])
                  ELSE /\ parsed.fields[Keys[i]].k = "fin"
                       /\ parsed.fields[Keys[i]] = CellValue(sel.tds[i])

\* The fourth cell of the selected row reads "--", the others are numbers.
C7_Witness ==
    LET sel == Selection
    IN  /\ ParseDone
        /\ sel.row # 0
        /\ Len(sel.tds) >= 5
        /\ {i \in 1..5 : ~Numeric(sel.tds[i])} = {4}
        /\ sel.tds[4].text = <<"-", "-">>
        /\ parsed.ok

\* A header or label row: none of its cells, td or th, shows a number.
LabelRowOf(row) == \A i \in 1..Len(row) : ~Numeric(row[i])

\* C9: in the selected table the parse takes the first row after the first
\* with a non-empty cell and a digit, and label rows between the header and
\* the numeric data are skipped: the values come from the numeric row.
C9_LabelRowsSkipped ==
    LET sel == Selection IN
    (ParseDone /\ sel.table # 0) =>
        LET tbl == html.tables[sel.table] IN
        \A j \in 2..Len(tbl) :
            (NumericRow(tbl[j]) /\ \A i \in 2..(j - 1) : LabelRowOf(tbl[i]))
                => FieldsAre(Tds(tbl[j]))

(***************************************************************************)
(* Properties of one run of main, checked under Spec                        *)
(***************************************************************************)
NotifyCalls == {i \in 1..Len(calls) : calls[i] = "notify"}

BeforeNotify ==
    <<"load_config", "fetch_html", "save_latest_html", "parse_snow_html",
      "evaluate_thresholds">>

\* The settings under which notify is meant to send: the section is missing
\* or null, or it is a mapping that does not set enabled to false and, for a
\* webhook method, holds the key or url the method needs.
NotifUsable ==
    LET nt == cfg.notification IN
    \/ nt.t \in {"absent", "null"}
    \/ /\ nt.t = "map"
       /\ nt.enabled # "false"
       /\ nt.method \in {"ifttt", "hubitat", "homekit"} => nt.cred

Sent == dispatched # <<>> /\ dispatched[1] \in {"print_alert", "post_ok", "post_failed"}

C10_NotifyOnceAfterPipeline ==
    /\ Cardinality(NotifyCalls) <= 1
    /\ \A i \in NotifyCalls : SubSeq(calls, 1, i - 1) = BeforeNotify
    /\ dispatched # <<>> => NotifyCalls # {}
    /\ (ParseDone /\ ~parsed.ok) =>
          /\ pc = "failed" /\ err.at = "parse_snow_html" /\ err.exc = parsed.exc
          /\ NotifyCalls = {} /\ dispatched = <<>>
          /\ ~ENABLED Next
    /\ (pc = "failed" /\ err.at = "fetch_html") =>
          /\ NotifyCalls = {} /\ dispatched = <<>>
          /\ ~ENABLED Next

C10_Witness ==
    /\ pc = "done"
    /\ calls = BeforeNotify \o <<"notify">>
    /\ dispatched = <<"post_ok">>

====
